---- MODULE Spec2Model ----
(***************************************************************************)
(* Messaging backend (messaging_app/chats): conversations, participants    *)
(* with roles and read watermarks, messages with soft delete.  Every       *)
(* request handler of chats/views.py is one action over the database       *)
(* tables of chats/models.py; `resp` holds the last request and its        *)
(* response.  The handlers are studied in several specifications:         *)
(*   MemberSpec      create, add_participant, remove_participant, leave    *)
(*   UnreadSpec      the clock, private conversations, send, mark_as_read  *)
(*   ReadSpec        UnreadSpec with users who leave                       *)
(*   RejoinSpec      the clock, send, leave, remove, add again             *)
(*   MessageSpec     private conversations, send and reply, soft delete    *)
(*   VisibilitySpec  send, soft delete, leave, remove, deactivation        *)
(*   EditSpec        the clock, send, edit, leave                          *)
(*   FailureSpec     every participant and message operation               *)
(*   ConcSpec        two create requests in flight, one database           *)
(*                   statement per step                                    *)
(***************************************************************************)
EXTENDS Integers, Sequences, FiniteSets, TLC

VARIABLES
    now,            \* timezone.now(): the wall clock read by the handlers
    conversations,  \* table conversations: sequence of rows, index = id
    participants,   \* table conversation_participants: set of rows
    messages,       \* table messages: sequence of rows, index = id
    resp,           \* the last request and its response
    reqs,           \* ConcSpec: the create requests in flight, per worker
    overlapped      \* ConcSpec: some request started while another was in flight

vars == <<now, conversations, participants, messages, resp, reqs, overlapped>>

db == <<conversations, participants, messages>>

----------------------------------------------------------------------------
(* Bounds *)

MaxTime == 2
MaxConvs == 2
MaxMsgs == 2
MaxPids == 2

----------------------------------------------------------------------------
(* Values *)

Users == {"alice", "bob"}               \* rows of table users
UnknownId == "ghost"                    \* a well-formed uuid that is no user's id
NoId == "none"                          \* user_id absent from request.data
UserIds == Users \cup {UnknownId}

NoConv == 0
NoMsg == 0
NoTime == -1

HTTP_200_OK == 200
HTTP_201_CREATED == 201
HTTP_400_BAD_REQUEST == 400
HTTP_403_FORBIDDEN == 403
HTTP_404_NOT_FOUND == 404
HTTP_500_INTEGRITY_ERROR == 500

\* Outcome names used by the specification for the status codes.
PermissionDenied == HTTP_403_FORBIDDEN
InvalidOperation == HTTP_400_BAD_REQUEST
NotFound == HTTP_404_NOT_FOUND

TypeInputs == {"private", "group", "omitted"}
Contents == {"a", "b"}
NoContent == "absent"

PidLists == UNION {[1..n -> UserIds] : n \in 0..MaxPids}

Workers == {"w1", "w2"}

----------------------------------------------------------------------------
(* Tables and querysets *)

\* Conversation.conversation_type: the model default applies when the
\* request leaves the field out.
EffectiveType(ctype) == IF ctype = "omitted" THEN "private" ELSE ctype

ConvIds == DOMAIN conversations
MsgIds == DOMAIN messages

\* conversation.participant_details
ParticipantRows(c) == {p \in participants : p.conversation = c}

\* conversation.participants (through ConversationParticipant)
ParticipantUsers(c) == {p.user : p \in ParticipantRows(c)}

\* ConversationParticipant.objects.filter(conversation=c, user=u)
Membership(c, u) == {p \in participants : p.conversation = c /\ p.user = u}

\* Variant: a new row starts with the watermark at the epoch.
NewParticipantEpoch(c, u, role, t) ==
    [conversation |-> c, user |-> u, role |-> role, last_read_at |-> 0]

\* ConversationParticipant.objects.create: last_read_at defaults to timezone.now
NewParticipant(c, u, role, t) ==
    [conversation |-> c, user |-> u, role |-> role, last_read_at |-> t]

\* Variant: the listing does not look at is_active.
ConversationQuerySetInactiveToo(u) ==
    {c \in ConvIds : u \in ParticipantUsers(c)}

\* ConversationViewSet.get_queryset
ConversationQuerySet(u) ==
    {c \in ConvIds : conversations[c].is_active /\ u \in ParticipantUsers(c)}

\* Variant: the listing does not look at is_deleted.
MessageQuerySetWithDeleted(u, cid) ==
    {m \in MsgIds :
        /\ u \in ParticipantUsers(messages[m].conversation)
        /\ (cid # NoConv => messages[m].conversation = cid)}

\* MessageViewSet.get_queryset; cid = NoConv when no conversation_id is given
MessageQuerySet(u, cid) ==
    {m \in MsgIds :
        /\ u \in ParticipantUsers(messages[m].conversation)
        /\ ~messages[m].is_deleted
        /\ (cid # NoConv => messages[m].conversation = cid)}

\* Variant: any participant may change the participants.
CanMutateAnyRole(rows) == rows # {}

\* ParticipantRoleGuard: role in ['admin', 'owner']
CanMutateParticipants(rows) ==
    \E p \in rows : p.role \in {"admin", "owner"}

----------------------------------------------------------------------------
(* Unread counts (serializers.py) *)

\* Variant: a message stamped with the watermark's own time counts as unread.
ParticipantUnreadInclusive(p) ==
    LET after == {m \in MsgIds : /\ messages[m].conversation = p.conversation
                                 /\ messages[m].created_at >= p.last_read_at}
    IN  Cardinality({m \in after : messages[m].sender # p.user})

\* ConversationParticipantSerializer.get_unread_messages_count
ParticipantUnread(p) ==
    LET after == {m \in MsgIds : /\ messages[m].conversation = p.conversation
                                 /\ messages[m].created_at > p.last_read_at}
    IN  Cardinality({m \in after : messages[m].sender # p.user})

\* ConversationSerializer.get_unread_messages_count
ConversationUnread(c, u) ==
    LET rows == Membership(c, u)
    IN  IF rows = {} THEN 0
        ELSE LET participant == CHOOSE p \in rows : TRUE
                 after == {m \in MsgIds : /\ messages[m].conversation = c
                                          /\ messages[m].created_at > participant.last_read_at}
             IN  Cardinality({m \in after : messages[m].sender # u})

\* ConversationListSerializer.get_unread_messages_count
ConversationListUnread(c, u) ==
    LET rows == Membership(c, u)
    IN  IF rows = {} THEN 0
        ELSE LET participant == CHOOSE p \in rows : TRUE
                 after == {m \in MsgIds : /\ messages[m].conversation = c
                                          /\ messages[m].created_at > participant.last_read_at}
             IN  Cardinality({m \in after : messages[m].sender # u})

----------------------------------------------------------------------------
(* Responses *)

Response(op, actor, conv, user, msg, status) ==
    [op |-> op, actor |-> actor, conv |-> conv, user |-> user, msg |-> msg,
     status |-> status, ctype |-> "", pids |-> <<>>, content |-> NoContent]

\* For create: the request's conversation_type and participant_ids are kept,
\* and user is the one id of a one-element participant_ids.
CreateResponse(actor, ctype, pids, conv, status) ==
    [op |-> "create", actor |-> actor, conv |-> conv,
     user |-> IF Len(pids) = 1 THEN pids[1] ELSE NoId, msg |-> NoMsg,
     status |-> status, ctype |-> ctype, pids |-> pids, content |-> NoContent]

Init ==
    /\ now = 0
    /\ conversations = <<>>
    /\ participants = {}
    /\ messages = <<>>
    /\ resp = Response("none", NoId, NoConv, NoId, NoMsg, HTTP_200_OK)
    /\ reqs = [w \in Workers |-> [pc |-> "idle", actor |-> NoId, target |-> NoId, conv |-> NoConv]]
    /\ overlapped = FALSE

\* The clock advances between requests; two requests may read the same value.
Tick ==
    /\ now < MaxTime
    /\ now' = now + 1
    /\ resp' = Response("tick", NoId, NoConv, NoId, NoMsg, HTTP_200_OK)
    /\ UNCHANGED <<db, reqs, overlapped>>

----------------------------------------------------------------------------
(* ConversationViewSet.create and ConversationCreateSerializer.create *)

\* Variant: the check looks among the group conversations.
ExistingGroup(actor, id) ==
    {c \in ConvIds : /\ conversations[c].conversation_type = "group"
                     /\ actor \in ParticipantUsers(c)
                     /\ id \in ParticipantUsers(c)}

\* The existence check of ConversationViewSet.create: private conversations
\* that have both the requester and participant_ids[0] among their participants.
ExistingPrivate(actor, id) ==
    {c \in ConvIds : /\ conversations[c].conversation_type = "private"
                     /\ actor \in ParticipantUsers(c)
                     /\ id \in ParticipantUsers(c)}

\* The check is made only for an explicit type 'private' and one id.
ChecksExisting(ctype, pids) == ctype = "private" /\ Len(pids) = 1

\* .first() under Meta.ordering = ['-updated_at']: a row with the greatest
\* updated_at; the order among equal timestamps is the database's choice.
FirstByUpdatedAt(cs) ==
    {c \in cs : \A d \in cs : conversations[d].updated_at <= conversations[c].updated_at}

\* Variant: the creator joins like everybody else.
CreatorRoleMember == "member"

\* The role given to the creator's participant row.
CreatorRole == "owner"

\* The loop over participant_ids: unknown ids are passed over, the creator is
\* not added again, and a second row for the same user breaks unique_together
\* (IntegrityError: the loop stops, the rows written so far stay).
RECURSIVE AddOthers(_, _, _, _, _)
AddOthers(rows, c, requester, ids, t) ==
    IF ids = <<>> THEN [rows |-> rows, ok |-> TRUE]
    ELSE LET id == Head(ids)
         IN  IF id \notin Users \/ id = requester
             THEN AddOthers(rows, c, requester, Tail(ids), t)
             ELSE IF \E p \in rows : p.conversation = c /\ p.user = id
             THEN [rows |-> rows, ok |-> FALSE]
             ELSE AddOthers(rows \cup {NewParticipant(c, id, "member", t)},
                            c, requester, Tail(ids), t)

\* Variant: created_by is not filled in.
NewConversationNoCreator(ctype, actor, t) ==
    [conversation_type |-> EffectiveType(ctype), created_by |-> NoId,
     updated_at |-> t, is_active |-> TRUE]

NewConversation(ctype, actor, t) ==
    [conversation_type |-> EffectiveType(ctype), created_by |-> actor,
     updated_at |-> t, is_active |-> TRUE]

\* ConversationCreateSerializer.create: the conversation row, the creator's
\* row, then the others.  Each statement commits on its own (the handler opens
\* no transaction), so what is written before an error stays.
SerializerCreate(actor, ctype, pids, t) ==
    LET c == Len(conversations) + 1
        withOwner == participants \cup {NewParticipant(c, actor, CreatorRole, t)}
    IN  AddOthers(withOwner, c, actor, pids, t)

Create(actor, ctype, pids) ==
    LET existing == IF ChecksExisting(ctype, pids)
                    THEN ExistingPrivate(actor, pids[1]) ELSE {}
    IN  /\ IF existing # {}
           THEN /\ \E c \in FirstByUpdatedAt(existing) :
                      resp' = CreateResponse(actor, ctype, pids, c, HTTP_200_OK)
                /\ UNCHANGED db
           ELSE /\ Len(conversations) < MaxConvs
                /\ LET c == Len(conversations) + 1
                       r == SerializerCreate(actor, ctype, pids, now)
                   IN  /\ conversations' = Append(conversations, NewConversation(ctype, actor, now))
                       /\ participants' = r.rows
                       /\ resp' = CreateResponse(actor, ctype, pids, c,
                                     IF r.ok THEN HTTP_201_CREATED ELSE HTTP_500_INTEGRITY_ERROR)
                /\ UNCHANGED messages
        /\ UNCHANGED <<now, reqs, overlapped>>

----------------------------------------------------------------------------
(* Participant operations *)

\* Variant: the check for an existing participant is left out.
AddStatusDuplicateUnchecked(actor, pk, user_id) ==
    IF pk \notin ConversationQuerySet(actor) THEN HTTP_404_NOT_FOUND
    ELSE IF ~CanMutateParticipants(Membership(pk, actor)) THEN HTTP_403_FORBIDDEN
    ELSE IF user_id = NoId THEN HTTP_400_BAD_REQUEST
    ELSE IF user_id \notin Users THEN HTTP_404_NOT_FOUND
    ELSE HTTP_200_OK

\* The checks of add_participant, in the handler's order.
AddStatus(actor, pk, user_id) ==
    IF pk \notin ConversationQuerySet(actor) THEN HTTP_404_NOT_FOUND
    ELSE IF ~CanMutateParticipants(Membership(pk, actor)) THEN HTTP_403_FORBIDDEN
    ELSE IF user_id = NoId THEN HTTP_400_BAD_REQUEST
    ELSE IF user_id \notin Users THEN HTTP_404_NOT_FOUND
    ELSE IF user_id \in ParticipantUsers(pk) THEN HTTP_400_BAD_REQUEST
    ELSE HTTP_200_OK

AddParticipant(actor, pk, user_id) ==
    LET status == AddStatus(actor, pk, user_id)
    IN  /\ participants' = IF status = HTTP_200_OK
                           THEN participants \cup {NewParticipant(pk, user_id, "member", now)}
                           ELSE participants
        /\ resp' = Response("add_participant", actor, pk, user_id, NoMsg, status)
        /\ UNCHANGED <<now, conversations, messages, reqs, overlapped>>

\* Variant: the owner check is left out.
RemoveStatusOwnerUnchecked(actor, pk, user_id) ==
    IF pk \notin ConversationQuerySet(actor) THEN HTTP_404_NOT_FOUND
    ELSE IF ~CanMutateParticipants(Membership(pk, actor)) THEN HTTP_403_FORBIDDEN
    ELSE IF user_id = NoId THEN HTTP_400_BAD_REQUEST
    ELSE IF Membership(pk, user_id) = {} THEN HTTP_404_NOT_FOUND
    ELSE HTTP_200_OK

\* The checks of remove_participant, in the handler's order.
RemoveStatus(actor, pk, user_id) ==
    IF pk \notin ConversationQuerySet(actor) THEN HTTP_404_NOT_FOUND
    ELSE IF ~CanMutateParticipants(Membership(pk, actor)) THEN HTTP_403_FORBIDDEN
    ELSE IF user_id = NoId THEN HTTP_400_BAD_REQUEST
    ELSE IF Membership(pk, user_id) = {} THEN HTTP_404_NOT_FOUND
    ELSE IF \E p \in Membership(pk, user_id) : p.role = "owner" THEN HTTP_400_BAD_REQUEST
    ELSE HTTP_200_OK

RemoveParticipant(actor, pk, user_id) ==
    LET target == Membership(pk, user_id)
        status == RemoveStatus(actor, pk, user_id)
    IN  /\ participants' = IF status = HTTP_200_OK
                           THEN participants \ target
                           ELSE participants
        /\ resp' = Response("remove_participant", actor, pk, user_id, NoMsg, status)
        /\ UNCHANGED <<now, conversations, messages, reqs, overlapped>>

\* Variant: the owner check is left out.
LeaveStatusOwnerUnchecked(actor, pk) ==
    IF pk \notin ConversationQuerySet(actor) THEN HTTP_404_NOT_FOUND
    ELSE IF Membership(pk, actor) = {} THEN HTTP_404_NOT_FOUND
    ELSE HTTP_200_OK

\* The checks of leave_conversation, in the handler's order.
LeaveStatus(actor, pk) ==
    IF pk \notin ConversationQuerySet(actor) THEN HTTP_404_NOT_FOUND
    ELSE IF Membership(pk, actor) = {} THEN HTTP_404_NOT_FOUND
    ELSE IF \E p \in Membership(pk, actor) : p.role = "owner" THEN HTTP_400_BAD_REQUEST
    ELSE HTTP_200_OK

LeaveConversation(actor, pk) ==
    LET own == Membership(pk, actor)
        status == LeaveStatus(actor, pk)
    IN  /\ participants' = IF status = HTTP_200_OK
                           THEN participants \ own
                           ELSE participants
        /\ resp' = Response("leave_conversation", actor, pk, NoId, NoMsg, status)
        /\ UNCHANGED <<now, conversations, messages, reqs, overlapped>>

\* Variant: the watermark is put back to the epoch.
ReadWatermarkReset(t) == 0

\* The watermark written by mark_as_read: timezone.now()
ReadWatermark(t) == t

\* PATCH /conversations/{pk}/ with {is_active: v}.  ConversationViewSet is a
\* ModelViewSet, so the route exists for every user the queryset shows the
\* conversation to; ConversationSerializer takes is_active as a writable field,
\* and saving the row rewrites updated_at (auto_now).
PartialUpdateConversation(actor, pk, v) ==
    LET found == pk \in ConversationQuerySet(actor)
    IN  /\ conversations' =
               IF found
               THEN [conversations EXCEPT ![pk].is_active = v, ![pk].updated_at = now]
               ELSE conversations
        /\ resp' = Response("partial_update", actor, pk, NoId, NoMsg,
                            IF found THEN HTTP_200_OK ELSE HTTP_404_NOT_FOUND)
        /\ UNCHANGED <<now, participants, messages, reqs, overlapped>>

\* Variant: the watermark of every participant of the conversation is moved.
MarkAsReadWholeConversation(actor, pk) ==
    LET found == pk \in ConversationQuerySet(actor)
    IN  /\ participants' =
               IF found
               THEN (participants \ ParticipantRows(pk)) \cup
                    {[p EXCEPT !.last_read_at = ReadWatermark(now)] : p \in ParticipantRows(pk)}
               ELSE participants
        /\ resp' = Response("mark_as_read", actor, pk, NoId, NoMsg,
                            IF found THEN HTTP_200_OK ELSE HTTP_404_NOT_FOUND)
        /\ UNCHANGED <<now, conversations, messages, reqs, overlapped>>

MarkAsRead(actor, pk) ==
    LET own == Membership(pk, actor)
        found == pk \in ConversationQuerySet(actor)
    IN  /\ participants' =
               IF found
               THEN (participants \ own) \cup
                    {[p EXCEPT !.last_read_at = ReadWatermark(now)] : p \in own}
               ELSE participants
        /\ resp' = Response("mark_as_read", actor, pk, NoId, NoMsg,
                            IF found THEN HTTP_200_OK ELSE HTTP_404_NOT_FOUND)
        /\ UNCHANGED <<now, conversations, messages, reqs, overlapped>>

----------------------------------------------------------------------------
(* MessageViewSet *)

\* Message.id = UUIDField(default=uuid.uuid4): an instance has its pk from
\* construction on, before the first save.
PkAtFirstSave(id) == id

\* Message.save: the conversation is touched only when self.pk is None.
ConversationsAfterSave(pk, c, t) ==
    IF pk = NoMsg
    THEN [conversations EXCEPT ![c].updated_at = t]
    ELSE conversations

NewMessage(c, actor, content, reply_to, t) ==
    [conversation |-> c, sender |-> actor, content |-> content,
     is_edited |-> FALSE, edited_at |-> NoTime,
     is_deleted |-> FALSE, deleted_at |-> NoTime,
     reply_to |-> reply_to, created_at |-> t, updated_at |-> t]

SendMessage(actor, c, content, reply_to) ==
    LET valid == c \in ConvIds /\ (reply_to # NoMsg => reply_to \in MsgIds)
        member == valid /\ actor \in ParticipantUsers(c)
        id == Len(messages) + 1
    IN  /\ member => Len(messages) < MaxMsgs
        /\ messages' = IF member
                       THEN Append(messages, NewMessage(c, actor, content, reply_to, now))
                       ELSE messages
        /\ conversations' = IF member
                            THEN ConversationsAfterSave(PkAtFirstSave(id), c, now)
                            ELSE conversations
        /\ resp' = Response("send", actor, c, NoId, IF member THEN id ELSE NoMsg,
                            IF ~valid THEN HTTP_400_BAD_REQUEST
                            ELSE IF ~member THEN HTTP_403_FORBIDDEN
                            ELSE HTTP_201_CREATED)
        /\ UNCHANGED <<now, participants, reqs, overlapped>>

\* Variant: any content in the request marks the message as edited.
EditedMessageAlwaysMarked(msg, content, t) ==
    LET changed == content # NoContent
    IN  [msg EXCEPT !.content = IF content = NoContent THEN @ ELSE content,
                    !.is_edited = IF changed THEN TRUE ELSE @,
                    !.edited_at = IF changed THEN t ELSE @,
                    !.updated_at = t]

\* MessageSerializer.update with data cut down to 'content' (partial update);
\* Message.updated_at is auto_now and is rewritten by every save.
EditedMessage(msg, content, t) ==
    LET changed == content # NoContent /\ content # msg.content
    IN  [msg EXCEPT !.content = IF content = NoContent THEN @ ELSE content,
                    !.is_edited = IF changed THEN TRUE ELSE @,
                    !.edited_at = IF changed THEN t ELSE @,
                    !.updated_at = t]

UpdateMessage(actor, pk, content) ==
    LET status ==
            IF pk \notin MessageQuerySet(actor, NoConv) THEN HTTP_404_NOT_FOUND
            ELSE IF messages[pk].sender # actor THEN HTTP_403_FORBIDDEN
            ELSE HTTP_200_OK
    IN  /\ messages' = IF status = HTTP_200_OK
                       THEN [messages EXCEPT ![pk] = EditedMessage(@, content, now)]
                       ELSE messages
        /\ conversations' = IF status = HTTP_200_OK
                            THEN ConversationsAfterSave(pk, messages[pk].conversation, now)
                            ELSE conversations
        /\ resp' = [Response("update", actor, NoConv, NoId, pk, status)
                        EXCEPT !.content = content]
        /\ UNCHANGED <<now, participants, reqs, overlapped>>

\* MessageViewSet.destroy: the soft delete
DeletedMessage(msg, t) ==
    [msg EXCEPT !.is_deleted = TRUE, !.deleted_at = t, !.updated_at = t]

\* Variant: the row is marked before the sender is checked.
DestroyMessageBeforeCheck(actor, pk) ==
    LET found == pk \in MessageQuerySet(actor, NoConv)
        status ==
            IF ~found THEN HTTP_404_NOT_FOUND
            ELSE IF messages[pk].sender # actor THEN HTTP_403_FORBIDDEN
            ELSE HTTP_200_OK
    IN  /\ messages' = IF found
                       THEN [messages EXCEPT ![pk] = DeletedMessage(@, now)]
                       ELSE messages
        /\ conversations' = IF found
                            THEN ConversationsAfterSave(pk, messages[pk].conversation, now)
                            ELSE conversations
        /\ resp' = Response("destroy", actor, NoConv, NoId, pk, status)
        /\ UNCHANGED <<now, participants, reqs, overlapped>>

DestroyMessage(actor, pk) ==
    LET status ==
            IF pk \notin MessageQuerySet(actor, NoConv) THEN HTTP_404_NOT_FOUND
            ELSE IF messages[pk].sender # actor THEN HTTP_403_FORBIDDEN
            ELSE HTTP_200_OK
    IN  /\ messages' = IF status = HTTP_200_OK
                       THEN [messages EXCEPT ![pk] = DeletedMessage(@, now)]
                       ELSE messages
        /\ conversations' = IF status = HTTP_200_OK
                            THEN ConversationsAfterSave(pk, messages[pk].conversation, now)
                            ELSE conversations
        /\ resp' = Response("destroy", actor, NoConv, NoId, pk, status)
        /\ UNCHANGED <<now, participants, reqs, overlapped>>

----------------------------------------------------------------------------
(* Sequential requests: every handler runs to its response before the next *)

PkInputs == 1..MaxConvs
MsgPkInputs == 1..MaxMsgs

DoCreate == \E actor \in Users, ctype \in TypeInputs, pids \in PidLists :
                Create(actor, ctype, pids)
DoAddParticipant == \E actor \in Users, pk \in PkInputs, id \in UserIds \cup {NoId} :
                        AddParticipant(actor, pk, id)
DoRemoveParticipant == \E actor \in Users, pk \in PkInputs, id \in UserIds \cup {NoId} :
                           RemoveParticipant(actor, pk, id)
DoLeaveConversation == \E actor \in Users, pk \in PkInputs : LeaveConversation(actor, pk)

\* Participant management (no message is involved; the clock is not advanced).
MemberNext ==
    \/ DoCreate
    \/ DoAddParticipant
    \/ DoRemoveParticipant
    \/ DoLeaveConversation

MemberSpec == Init /\ [][MemberNext]_vars

----------------------------------------------------------------------------
(* Reading: conversations between users, messages, mark_as_read, the clock *)

DoFindOrCreatePrivate == \E actor \in Users : \E other \in Users \ {actor} :
                             Create(actor, "private", <<other>>)
DoSendText == \E actor \in Users, c \in PkInputs :
                  SendMessage(actor, c, "a", NoMsg)
DoMarkAsRead == \E actor \in Users, pk \in PkInputs : MarkAsRead(actor, pk)

UnreadNext ==
    \/ Tick
    \/ DoFindOrCreatePrivate
    \/ DoSendText
    \/ DoMarkAsRead

UnreadSpec == Init /\ [][UnreadNext]_vars

----------------------------------------------------------------------------
(* Leaving and joining again, with the clock, messages and mark_as_read. *)
(* The setting is fixed: alice opens the private conversation with bob,  *)
(* and bob may leave it; everything else is by either of them.           *)

DoAliceCreates == Create("alice", "private", <<"bob">>)
DoBobLeaves == \E pk \in PkInputs : LeaveConversation("bob", pk)

DoAddUser == \E actor \in Users, pk \in PkInputs, id \in Users :
                 AddParticipant(actor, pk, id)

DoRemoveUser == \E actor \in Users, pk \in PkInputs, id \in Users :
                    RemoveParticipant(actor, pk, id)

RejoinNext ==
    \/ Tick
    \/ DoAliceCreates
    \/ DoSendText
    \/ DoBobLeaves
    \/ DoRemoveUser
    \/ DoAddUser

RejoinSpec == Init /\ [][RejoinNext]_vars

\* mark_as_read among participants and users who have left.
ReadNext ==
    \/ Tick
    \/ DoAliceCreates
    \/ DoSendText
    \/ DoMarkAsRead
    \/ DoBobLeaves

ReadSpec == Init /\ [][ReadNext]_vars

----------------------------------------------------------------------------
(* Messages: sending, replying, soft delete *)

DoSendReply == \E actor \in Users, c \in PkInputs, reply_to \in {NoMsg} \cup MsgPkInputs :
                   SendMessage(actor, c, "a", reply_to)
DoDestroyMessage == \E actor \in Users, pk \in MsgPkInputs : DestroyMessage(actor, pk)

MessageNext ==
    \/ DoFindOrCreatePrivate
    \/ DoSendReply
    \/ DoDestroyMessage

MessageSpec == Init /\ [][MessageNext]_vars

----------------------------------------------------------------------------
(* What a user is shown: leaving, deactivated conversations, soft delete *)

DoPartialUpdateConversation == \E actor \in Users, pk \in PkInputs, v \in BOOLEAN :
                                   PartialUpdateConversation(actor, pk, v)

VisibilityNext ==
    \/ DoFindOrCreatePrivate
    \/ DoSendText
    \/ DoDestroyMessage
    \/ DoLeaveConversation
    \/ DoRemoveUser
    \/ DoPartialUpdateConversation

VisibilitySpec == Init /\ [][VisibilityNext]_vars

----------------------------------------------------------------------------
(* Editing messages, with the clock and a user who has left (same setting) *)

DoUpdateMessage == \E actor \in Users, pk \in MsgPkInputs, content \in Contents \cup {NoContent} :
                       UpdateMessage(actor, pk, content)

EditNext ==
    \/ Tick
    \/ DoAliceCreates
    \/ DoSendText
    \/ DoUpdateMessage
    \/ DoBobLeaves

EditSpec == Init /\ [][EditNext]_vars

----------------------------------------------------------------------------
(* Refused requests: every participant and message operation, in the same *)
(* setting (alice opens the conversation, anybody does anything else)     *)

DoRewriteMessage == \E actor \in Users, pk \in MsgPkInputs : UpdateMessage(actor, pk, "b")

FailureNext ==
    \/ DoAliceCreates
    \/ DoAddParticipant
    \/ DoRemoveParticipant
    \/ DoLeaveConversation
    \/ DoSendText
    \/ DoRewriteMessage
    \/ DoDestroyMessage

FailureSpec == Init /\ [][FailureNext]_vars

----------------------------------------------------------------------------
(* Two create requests in flight.  No transaction spans the handler: the *)
(* existence check and each insert are separate database statements.     *)

SetReq(w, r) == reqs' = [reqs EXCEPT ![w] = r]

IdleReq == [pc |-> "idle", actor |-> NoId, target |-> NoId, conv |-> NoConv]

\* A request {conversation_type: 'private', participant_ids: [target]} arrives.
BeginCreate(w, actor, target) ==
    /\ reqs[w].pc = "idle"
    /\ SetReq(w, [pc |-> "check", actor |-> actor, target |-> target, conv |-> NoConv])
    /\ overlapped' = (overlapped \/ \E v \in Workers \ {w} : reqs[v].pc # "idle")
    /\ UNCHANGED <<now, db, resp>>

\* views.py 70-81: the existence check, and the response when one is found
CheckExisting(w) ==
    LET r == reqs[w]
        existing == ExistingPrivate(r.actor, r.target)
    IN  /\ r.pc = "check"
        /\ IF existing # {}
           THEN /\ \E c \in FirstByUpdatedAt(existing) :
                      resp' = CreateResponse(r.actor, "private", <<r.target>>, c, HTTP_200_OK)
                /\ SetReq(w, IdleReq)
           ELSE /\ SetReq(w, [r EXCEPT !.pc = "insert"])
                /\ UNCHANGED resp
        /\ UNCHANGED <<now, db, overlapped>>

\* serializers.py 275: the conversation row
InsertConversation(w) ==
    LET r == reqs[w]
    IN  /\ r.pc = "insert"
        /\ Len(conversations) < MaxConvs
        /\ conversations' = Append(conversations, NewConversation("private", r.actor, now))
        /\ SetReq(w, [r EXCEPT !.pc = "owner", !.conv = Len(conversations) + 1])
        /\ UNCHANGED <<now, participants, messages, resp, overlapped>>

\* serializers.py 278-282: the creator's row
InsertOwner(w) ==
    LET r == reqs[w]
    IN  /\ r.pc = "owner"
        /\ participants' = participants \cup {NewParticipant(r.conv, r.actor, CreatorRole, now)}
        /\ SetReq(w, [r EXCEPT !.pc = "others"])
        /\ UNCHANGED <<now, conversations, messages, resp, overlapped>>

\* serializers.py 285-297 and views.py 84-87: the other rows, and the response
InsertOthers(w) ==
    LET r == reqs[w]
        res == AddOthers(participants, r.conv, r.actor, <<r.target>>, now)
    IN  /\ r.pc = "others"
        /\ participants' = res.rows
        /\ resp' = CreateResponse(r.actor, "private", <<r.target>>, r.conv,
                       IF res.ok THEN HTTP_201_CREATED ELSE HTTP_500_INTEGRITY_ERROR)
        /\ SetReq(w, IdleReq)
        /\ UNCHANGED <<now, conversations, messages, overlapped>>

DoBeginCreate == \E w \in Workers, actor \in Users, target \in UserIds :
                     BeginCreate(w, actor, target)
DoCheckExisting == \E w \in Workers : CheckExisting(w)
DoInsertConversation == \E w \in Workers : InsertConversation(w)
DoInsertOwner == \E w \in Workers : InsertOwner(w)
DoInsertOthers == \E w \in Workers : InsertOthers(w)

ConcNext ==
    \/ DoBeginCreate
    \/ DoCheckExisting
    \/ DoInsertConversation
    \/ DoInsertOwner
    \/ DoInsertOthers

ConcSpec == Init /\ [][ConcNext]_vars

----------------------------------------------------------------------------
(* Claims on participant management, checked under MemberSpec *)

\* The request of the last response asked for a private conversation with
\* exactly one other user id (findOrCreatePrivate).
IsFindOrCreatePrivate(r) ==
    r.op = "create" /\ EffectiveType(r.ctype) = "private" /\ Len(r.pids) = 1

\* C2 (as claimed): findOrCreatePrivate is idempotent: of two successive
\* identical calls by a requester for another user's id, the second returns
\* the conversation the first returned and creates no conversation.
C2_FindOrCreateIdempotent ==
    [][(/\ IsFindOrCreatePrivate(resp) /\ IsFindOrCreatePrivate(resp')
        /\ resp'.actor = resp.actor /\ resp'.user = resp.user
        /\ resp'.ctype = resp.ctype /\ resp.user # resp.actor)
       => (resp'.conv = resp.conv /\ Len(conversations') = Len(conversations))]_vars

\* C3 (as claimed): every private conversation has exactly two participants.
C3_PrivateHasTwoParticipants ==
    \A c \in ConvIds :
        conversations[c].conversation_type = "private"
            => Cardinality(ParticipantRows(c)) = 2

\* The remove_participant request answered by r names the owner's row.
TargetsOwner(r) ==
    /\ r.op = "remove_participant"
    /\ \E p \in participants :
          p.conversation = r.conv /\ p.user = r.user /\ p.role = "owner"

ByPlainMember(r) ==
    /\ r.op \in {"add_participant", "remove_participant"}
    /\ \E p \in participants :
          /\ p.conversation = r.conv /\ p.user = r.actor
          /\ p.role \notin {"admin", "owner"}

C6_UnknownUserNotFound ==
    [][(IsFindOrCreatePrivate(resp') /\ resp'.user \notin Users)
       => (resp'.status = NotFound /\ Len(conversations') = Len(conversations))]_vars

\* The ids of a participant_ids list.
Ids(pids) == {pids[i] : i \in DOMAIN pids}

\* C10: right after create has made a conversation, it has exactly one owner
\* row, the requester's; every other row is a member's and belongs to a user
\* named in the request; the requester has one row only.
C10_OwnerAtCreation ==
    (resp.op = "create" /\ resp.status \in {HTTP_201_CREATED, HTTP_500_INTEGRITY_ERROR})
    => LET rows == ParticipantRows(resp.conv)
       IN  /\ Cardinality({p \in rows : p.role = "owner"}) = 1
           /\ \A p \in rows : p.role = "owner" => p.user = resp.actor
           /\ \A p \in rows : p.user # resp.actor =>
                  (p.role = "member" /\ p.user \in Ids(resp.pids))
           /\ Cardinality({p \in rows : p.user = resp.actor}) = 1
           /\ \A u \in (Ids(resp.pids) \cap Users) :
                  resp.status = HTTP_201_CREATED => u \in ParticipantUsers(resp.conv)

\* C10 witness: a conversation created from a list that names the requester
\* and another user.
C10_Witness ==
    /\ resp.op = "create" /\ resp.status = HTTP_201_CREATED
    /\ resp.actor \in Ids(resp.pids)
    /\ \E p \in ParticipantRows(resp.conv) : p.user # resp.actor /\ p.role = "member"

\* The leave_conversation request answered by r came from the conversation's
\* owner.
LeaveByOwner(r) ==
    /\ r.op = "leave_conversation"
    /\ \E p \in participants :
          p.conversation = r.conv /\ p.user = r.actor /\ p.role = "owner"

AddsExisting(r) ==
    /\ r.op = "add_participant"
    /\ \E p \in participants :
          /\ p.conversation = r.conv /\ p.user = r.actor
          /\ p.role \in {"admin", "owner"}
    /\ \E p \in participants : p.conversation = r.conv /\ p.user = r.user

\* No two participant rows for the same conversation and user.
UniqueRows ==
    \A p, q \in participants :
        (p.conversation = q.conversation /\ p.user = q.user) => p = q

C15_OneOwnerTheCreator ==
    \A c \in ConvIds :
        LET owners == {p \in participants : p.conversation = c /\ p.role = "owner"}
        IN  /\ Cardinality(owners) = 1
            /\ \A p \in owners : p.user = conversations[c].created_by

\* C15 witness: a conversation whose creator is still its one owner after
\* another participant was added and a participant was taken out.
C15_Witness ==
    /\ resp.op \in {"remove_participant", "leave_conversation"}
    /\ resp.status = HTTP_200_OK
    /\ \E p \in ParticipantRows(resp.conv) :
          p.role = "owner" /\ p.user = conversations[resp.conv].created_by
    /\ \E c \in ConvIds \ {resp.conv} : Cardinality(ParticipantRows(c)) = 2

----------------------------------------------------------------------------
(* Claims on unread counts, checked under UnreadSpec *)

\* The messages m..Len(messages) of conversation c stamped strictly after t
\* and not sent by u, counted one by one.
RECURSIVE LaterFromOthers(_, _, _, _)
LaterFromOthers(m, c, t, u) ==
    IF m > Len(messages) THEN 0
    ELSE (IF /\ messages[m].conversation = c
             /\ messages[m].created_at > t
             /\ messages[m].sender # u
          THEN 1 ELSE 0) + LaterFromOthers(m + 1, c, t, u)

\* C1: for every participant row P of a conversation C, with watermark t, each
\* of the three reported unread counts is the number of messages of C stamped
\* strictly after t whose sender is not P.
C1_UnreadCountExact ==
    \A p \in participants :
        LET n == LaterFromOthers(1, p.conversation, p.last_read_at, p.user)
        IN  /\ ParticipantUnread(p) = n
            /\ ConversationUnread(p.conversation, p.user) = n
            /\ ConversationListUnread(p.conversation, p.user) = n

\* C1 witness: a participant with one message counted and one of the same
\* sender not counted, because it is not later than the watermark.
C1_Witness ==
    \E p \in participants :
        /\ ParticipantUnread(p) = 1
        /\ ConversationUnread(p.conversation, p.user) = 1
        /\ \E m \in MsgIds : /\ messages[m].conversation = p.conversation
                             /\ messages[m].sender # p.user
                             /\ messages[m].created_at <= p.last_read_at

\* The owner of a private conversation of two, other than the sender.
OwnerReaders(c, sender) ==
    {p \in ParticipantRows(c) :
        /\ conversations[c].conversation_type = "private"
        /\ Cardinality(ParticipantRows(c)) = 2
        /\ p.role = "owner" /\ p.user # sender}

\* The step is a successful send by `sender` to conversation c.
Sent(c, sender) ==
    /\ resp'.op = "send" /\ resp'.status = HTTP_201_CREATED
    /\ resp'.conv = c /\ resp'.actor = sender

\* C7 (as claimed): in a private conversation between A (owner) and B, every
\* message B sends raises A's unread count by one, whatever the timestamps.
C7_EverySendCounts ==
    [][\A c \in PkInputs, sender \in Users :
          Sent(c, sender)
          => \A p \in OwnerReaders(c, sender) :
                 ConversationUnread(c, p.user)' = ConversationUnread(c, p.user) + 1]_vars

\* C7 (amended): A's unread count is 0 when the conversation is created and
\* right after A's mark_as_read, and a message B sends raises it by one exactly
\* when the message's created_at is strictly later than A's watermark (a message
\* stamped with the watermark's own time is never counted).
C7_SendCountsWhenLater ==
    [][\A c \in PkInputs, a \in Users :
          /\ Sent(c, a)
             => \A p \in OwnerReaders(c, a) :
                    ConversationUnread(c, p.user)'
                        = ConversationUnread(c, p.user)
                          + (IF now > p.last_read_at THEN 1 ELSE 0)
          /\ (/\ resp'.op = "mark_as_read" /\ resp'.status = HTTP_200_OK
              /\ resp'.conv = c /\ resp'.actor = a)
             => ConversationUnread(c, a)' = 0
          /\ (/\ resp'.op = "create" /\ resp'.status = HTTP_201_CREATED
              /\ resp'.conv = c)
             => ConversationUnread(c, a)' = 0]_vars

\* C7 witness: B sent, A (owner) marked the conversation as read, and B sent
\* again later: A's count is 1 and the message read before is not in it.
C7_Witness ==
    /\ resp.op = "send" /\ resp.status = HTTP_201_CREATED
    /\ \E p \in OwnerReaders(resp.conv, resp.actor) :
          /\ p.last_read_at > conversations[resp.conv].updated_at
          /\ ConversationUnread(resp.conv, p.user) = 1
          /\ \E m \in MsgIds : /\ messages[m].conversation = resp.conv
                               /\ messages[m].sender = resp.actor
                               /\ messages[m].created_at <= p.last_read_at

\* C16 (as claimed): saving a new message puts its conversation's updated_at
\* at the time of the save, and saving an existing message again (edit, soft
\* delete) leaves the conversation's updated_at as it was.
C16_NewMessageTouchesConversation ==
    [][/\ \A c \in PkInputs, sender \in Users :
             Sent(c, sender) => conversations'[c].updated_at = now
       /\ (resp'.op \in {"update", "destroy"} /\ resp'.status = HTTP_200_OK)
             => conversations' = conversations]_vars

----------------------------------------------------------------------------
(* Claims on mark_as_read, checked under ReadSpec *)

----------------------------------------------------------------------------
(* Claims on leaving and joining again, checked under RejoinSpec *)

\* The step is a successful leave_conversation by u, or a successful
\* remove_participant aimed at u, in conversation c.
Left(c, u) ==
    /\ resp'.status = HTTP_200_OK /\ resp'.conv = c
    /\ \/ resp'.op = "leave_conversation" /\ resp'.actor = u
       \/ resp'.op = "remove_participant" /\ resp'.user = u

\* The step is a successful add_participant of u to conversation c.
Joined(c, u) ==
    /\ resp'.op = "add_participant" /\ resp'.status = HTTP_200_OK
    /\ resp'.conv = c /\ resp'.user = u

\* C13: a successful leave_conversation or remove_participant takes the
\* user's participant row out of the table; a successful add_participant is
\* for a user with no row in the conversation and gives them exactly one new
\* row, with role member and the watermark at the time of joining, whatever
\* they had before, so that no message already in the conversation is counted
\* as unread for them.
C13_RejoinIsFresh ==
    [][\A c \in PkInputs, u \in Users :
          /\ Left(c, u)
             => /\ Membership(c, u) # {}
                /\ Membership(c, u)' = {}
                /\ participants' = participants \ Membership(c, u)
          /\ Joined(c, u)
             => /\ Membership(c, u) = {}
                /\ Membership(c, u)' =
                       {[conversation |-> c, user |-> u, role |-> "member",
                         last_read_at |-> now]}
                /\ participants \subseteq participants'
                /\ ConversationUnread(c, u)' = 0
                /\ ConversationListUnread(c, u)' = 0
                /\ \A p \in Membership(c, u)' : ParticipantUnread(p)' = 0]_vars

\* C13 witness: a user who had sent a message to the conversation (so had a
\* row in it) has just been added again, at a time later than a message
\* somebody else sent there; that message is not unread for them.
C13_Witness ==
    /\ resp.op = "add_participant" /\ resp.status = HTTP_200_OK
    /\ \E m, k \in MsgIds :
          /\ messages[m].conversation = resp.conv /\ messages[m].sender = resp.user
          /\ messages[k].conversation = resp.conv /\ messages[k].sender # resp.user
          /\ messages[k].created_at < now
    /\ ConversationUnread(resp.conv, resp.user) = 0

----------------------------------------------------------------------------
(* Claims on messages, checked under MessageSpec *)

\* The fields of a message row that a soft delete has no business with.
Kept(msg) ==
    <<msg.conversation, msg.sender, msg.content, msg.reply_to, msg.created_at,
      msg.is_edited, msg.edited_at>>

\* C8: after its sender's destroy, a message is in no user's message listing
\* (with or without a conversation_id filter), its row is still in the table,
\* every message replying to it still refers to it, and no other message has
\* changed.
C8_SoftDelete ==
    [][\A m \in MsgPkInputs :
          (resp'.op = "destroy" /\ resp'.status = HTTP_200_OK /\ resp'.msg = m)
          => /\ \A u \in Users, cid \in {NoConv} \cup PkInputs :
                    m \notin MessageQuerySet(u, cid)'
             /\ \E u \in Users : m \in MessageQuerySet(u, NoConv)
             /\ DOMAIN messages' = DOMAIN messages
             /\ Kept(messages'[m]) = Kept(messages[m])
             /\ \A k \in MsgIds : messages[k].reply_to = m => messages'[k].reply_to = m
             /\ \A k \in MsgIds \ {m} : messages'[k] = messages[k]]_vars

\* C8 witness: a message that has a reply was soft-deleted by its sender, who
\* shares the conversation with another user.
C8_Witness ==
    /\ resp.op = "destroy" /\ resp.status = HTTP_200_OK
    /\ messages[resp.msg].is_deleted
    /\ \E k \in MsgIds : messages[k].reply_to = resp.msg
    /\ Cardinality(ParticipantUsers(messages[resp.msg].conversation)) = 2

----------------------------------------------------------------------------
(* Claims on what a user is shown, checked under VisibilitySpec *)

\* User u has a participant row in conversation c.
HasRow(c, u) == \E p \in participants : p.conversation = c /\ p.user = u

\* The conversations shown to u are the active ones in which u has a row.
ConversationsShown(u) ==
    ConversationQuerySet(u) =
        {c \in ConvIds : conversations[c].is_active /\ HasRow(c, u)}

\* The messages shown to u (of conversation cid when one is asked for) are
\* the messages not soft-deleted of the conversations in which u has a row;
\* with activeOnly, of the active ones among these only.
MessagesShown(u, cid, activeOnly) ==
    MessageQuerySet(u, cid) =
        {m \in MsgIds :
            /\ HasRow(messages[m].conversation, u)
            /\ activeOnly => conversations[messages[m].conversation].is_active
            /\ ~messages[m].is_deleted
            /\ (cid # NoConv => messages[m].conversation = cid)}

\* After a successful leave or removal of u from c, neither c nor any message
\* of c is shown to u; a send by a user with no row in the (existing)
\* conversation is answered PermissionDenied and stores no message.
GoneAfterLeaving ==
    /\ \A c \in PkInputs, u \in Users :
          Left(c, u)
          => /\ c \notin ConversationQuerySet(u)'
             /\ \A cid \in {NoConv} \cup PkInputs :
                    \A m \in MessageQuerySet(u, cid)' : messages'[m].conversation # c
    /\ (/\ resp'.op = "send" /\ resp'.conv \in ConvIds
        /\ ~HasRow(resp'.conv, resp'.actor))
       => (resp'.status = PermissionDenied /\ messages' = messages)

\* C17 (as claimed): in every state the conversations and the messages shown
\* to a user are exactly those of the active conversations in which the user
\* has a participant row (messages: the ones not soft-deleted); after leaving
\* or being removed the user is shown neither the conversation nor its
\* messages, and their send to it fails with PermissionDenied and stores
\* nothing.
C17_ShownOnlyActive ==
    [][/\ \A u \in Users :
             /\ ConversationsShown(u)'
             /\ \A cid \in {NoConv} \cup PkInputs : MessagesShown(u, cid, TRUE)'
       /\ GoneAfterLeaving]_vars

\* C17 (amended): the conversations shown to a user are exactly the active
\* conversations in which the user has a participant row; the messages shown
\* are exactly the messages not soft-deleted of the conversations, active or
\* not, in which the user has a row; after leaving or being removed the user
\* is shown neither the conversation nor its messages, and their send to it
\* fails with PermissionDenied and stores nothing.
C17_ShownToParticipants ==
    [][/\ \A u \in Users :
             /\ ConversationsShown(u)'
             /\ \A cid \in {NoConv} \cup PkInputs : MessagesShown(u, cid, FALSE)'
       /\ GoneAfterLeaving]_vars

\* C17 witness: a user who had sent a message to a conversation and then left
\* it has just been refused a send to it; the conversation has been
\* deactivated since, and the participant who stayed is still shown the
\* message while the one who left is not.
C17_Witness ==
    /\ resp.op = "send" /\ resp.status = PermissionDenied
    /\ resp.conv \in ConvIds /\ ~conversations[resp.conv].is_active
    /\ \E m \in MsgIds :
          /\ messages[m].conversation = resp.conv /\ messages[m].sender = resp.actor
          /\ m \notin MessageQuerySet(resp.actor, NoConv)
          /\ \E u \in Users : m \in MessageQuerySet(u, NoConv)

----------------------------------------------------------------------------
(* Claims on editing, checked under EditSpec *)

\* The fields of a message row that an edit is not about, updated_at left out.
NotEditable(msg) ==
    <<msg.conversation, msg.sender, msg.reply_to, msg.created_at,
      msg.is_deleted, msg.deleted_at>>

\* What the claim says about is_edited and edited_at, for the row before (old)
\* and after (new) an edit asking for `content` at time t.
EditMarks(old, new, content, t) ==
    /\ new.content = IF content = NoContent THEN old.content ELSE content
    /\ IF content # NoContent /\ content # old.content
       THEN new.is_edited /\ new.edited_at = t
       ELSE new.is_edited = old.is_edited /\ new.edited_at = old.edited_at

\* C18 (as claimed): an edit by any user other than the sender is answered
\* PermissionDenied and changes no message; the sender's edit changes no field
\* of the message other than content, is_edited and edited_at, and no other
\* message; is_edited becomes true and edited_at the edit time exactly when the
\* new content differs from the stored one; is_edited never goes back to false.
C18_EditBySenderOnly ==
    [][/\ \A m \in MsgIds :
             (resp'.op = "update" /\ resp'.msg = m)
             => IF resp'.actor # messages[m].sender
                THEN resp'.status = PermissionDenied /\ messages' = messages
                ELSE /\ resp'.status = HTTP_200_OK
                     /\ \A k \in MsgIds \ {m} : messages'[k] = messages[k]
                     /\ NotEditable(messages'[m]) = NotEditable(messages[m])
                     /\ messages'[m].updated_at = messages[m].updated_at
                     /\ EditMarks(messages[m], messages'[m], resp'.content, now)
       /\ \A m \in MsgIds : messages[m].is_edited => messages'[m].is_edited]_vars

\* C18 (amended): an edit by a participant of the message's conversation who
\* is not the sender is answered PermissionDenied, an edit by a user with no
\* participant row there (or of a soft-deleted message, which nobody is shown)
\* is answered NotFound, and neither changes a message;
\* the sender's edit changes no field of the message other than content,
\* is_edited, edited_at and updated_at (which every save puts at the time of
\* the save), and no other message; is_edited becomes true and edited_at the
\* edit time exactly when the new content differs from the stored one;
\* is_edited never goes back to false.
C18_EditRules ==
    [][/\ \A m \in MsgIds :
             (resp'.op = "update" /\ resp'.msg = m)
             => IF \/ ~HasRow(messages[m].conversation, resp'.actor)
                   \/ messages[m].is_deleted
                THEN resp'.status = NotFound /\ messages' = messages
                ELSE IF resp'.actor # messages[m].sender
                THEN resp'.status = PermissionDenied /\ messages' = messages
                ELSE /\ resp'.status = HTTP_200_OK
                     /\ \A k \in MsgIds \ {m} : messages'[k] = messages[k]
                     /\ NotEditable(messages'[m]) = NotEditable(messages[m])
                     /\ messages'[m].updated_at = now
                     /\ EditMarks(messages[m], messages'[m], resp'.content, now)
       /\ \A m \in MsgIds : messages[m].is_edited => messages'[m].is_edited]_vars

\* C18 witness: the sender has just changed the content of a message, later
\* than it was sent, while another message of the conversation is unedited.
C18_Witness ==
    /\ resp.op = "update" /\ resp.status = HTTP_200_OK
    /\ messages[resp.msg].content = resp.content
    /\ messages[resp.msg].is_edited
    /\ messages[resp.msg].edited_at = now
    /\ messages[resp.msg].created_at < now
    /\ \E k \in MsgIds \ {resp.msg} : ~messages[k].is_edited

----------------------------------------------------------------------------
(* Claims on refused requests, checked under FailureSpec *)

\* The response r refuses a participant or message operation.
Refused(r) ==
    /\ r.op \in {"add_participant", "remove_participant", "leave_conversation",
                 "send", "update", "destroy"}
    /\ r.status \in {PermissionDenied, InvalidOperation, NotFound}

\* C19: an add_participant, remove_participant, leave_conversation, send, edit
\* or delete that is answered PermissionDenied, InvalidOperation or NotFound
\* leaves the conversations, the participant rows (roles and watermarks
\* included) and the messages exactly as they were.
C19_RefusedChangesNothing ==
    [][Refused(resp')
       => /\ conversations' = conversations
          /\ participants' = participants
          /\ messages' = messages]_vars

\* C19 witness: a participant who is not the sender has just been refused the
\* deletion of a message, which is still shown.
C19_Witness ==
    /\ Refused(resp)
    /\ resp.op = "destroy" /\ resp.status = PermissionDenied
    /\ resp.msg \in MessageQuerySet(resp.actor, NoConv)
    /\ Cardinality(participants) >= 2

----------------------------------------------------------------------------
(* Claims on concurrent creation, checked under ConcSpec *)

\* Two distinct private conversations with the same two participants.
DuplicatePairs ==
    {cs \in ConvIds \X ConvIds :
        /\ cs[1] < cs[2]
        /\ conversations[cs[1]].conversation_type = "private"
        /\ conversations[cs[2]].conversation_type = "private"
        /\ ParticipantUsers(cs[1]) = ParticipantUsers(cs[2])
        /\ Cardinality(ParticipantUsers(cs[1])) = 2}

====
